---- MODULE Spec2Model ----
(***************************************************************************)
(* venus2g96 / venus2gro: conversion of a VENUS96 output file into g96 or  *)
(* gro trajectory files.  The model follows src/src/venus2g96.py and       *)
(* src/src/venus2gro.py: the reorder map loader, the anchor-driven line    *)
(* scanner, the optional concatenation of the trajectories, and the write  *)
(* loop with its backup rotation, over a small file system.                *)
(*                                                                         *)
(* Indices are 0-based as in the Python source; a TLA+ sequence s is read  *)
(* at s[i + 1] for the Python s[i].                                        *)
(*                                                                         *)
(* The interpreter is one that accepts the two dataclass definitions       *)
(* (their default box is an ndarray, which Python 3.11 and later reject    *)
(* as a mutable default), and os.rename replaces its target as on POSIX.   *)
(***************************************************************************)
EXTENDS Integers, Sequences, FiniteSets, TLC

\* ------------------------------------------------------------------ bounds
MaxAtoms == 2
MaxTraj == 2
MaxBody == 4
MaxVer == 2
MaxRuns == 3

VARIABLES
    variant,        \* "g96" (venus2g96.py) or "gro" (venus2gro.py)
    split,          \* argument split (not --no-split)
    contents,       \* the lines of the VENUS96 output file
    reorder,        \* the reorder map file, if given, and its 1-based integers
    temp_num_atoms, \* atom count of the template gro file (gro only)
    out_dir,        \* directory part of the output path
    pc,             \* position of the run in the function body
    error,          \* the exception that ended the run, "" when none
    reorder_map, cur_line_idx, cur_traj_idx, num_atoms, masses, traj_list,
    traj_idx,       \* index of the write loop's enumerate()
    frame_idx,      \* number of frames of the current trajectory written
    handle,         \* the path held open by the with-statement, or NoPath
    out_list,       \* traj_g96_list / traj_gro_list
    fs,             \* the file system: existing path -> file content
    run,            \* number of the current run of the tool
    reruns,         \* number of runs still to come
    log             \* file operations of the current run, in order

vars == <<variant, split, contents, reorder, temp_num_atoms, out_dir, pc,
          error, reorder_map, cur_line_idx, cur_traj_idx, num_atoms, masses,
          traj_list, traj_idx, frame_idx, handle, out_list, fs, run, reruns,
          log>>

inputs == <<variant, split, contents, reorder, temp_num_atoms, out_dir>>

\* --------------------------------------------------------- generic helpers
RECURSIVE Concat(_)
Concat(ss) == IF ss = <<>> THEN <<>> ELSE Head(ss) \o Concat(Tail(ss))

SeqsUpTo(S, n) == UNION {[1..k -> S] : k \in 0..n}

Min(S) == CHOOSE x \in S : \A y \in S : x <= y

Prefix(s, n) == SubSeq(s, 1, IF n < Len(s) THEN n ELSE Len(s))

Suffix(s, n) == SubSeq(s, n + 1, Len(s))

\* Python list indexing s[k]: a negative k counts from the end.
PyIndex(s, k) == IF k >= 0 THEN s[k + 1] ELSE s[Len(s) + k + 1]

\* ------------------------------------------------ the source text (input)
\* A line of the VENUS96 output: its anchor (or NUM for a line of numeric
\* tokens, BLANK for an empty line, TEXT for words without an anchor), the
\* integer the anchor line carries, and the numeric tokens of line.split().
Line(kind, val, nums) == [kind |-> kind, val |-> val, nums |-> nums]

anchor_num_atoms == "NUMBER OF ATOMS"
anchor_masses == "MASSES OF ATOMS"
anchor_traj == "TRAJECTORY NUMBER"
anchor_cycle == "THE CYCLE COUNT IS"

\* Mass of atom j (1-based) in the source's mass table, in amu.
MassOf(j) == j

\* Atom j of a frame block: coordinates in Angstrom, momenta in
\* amu * Angstrom / (1.0e-14 s); all multiples that convert exactly.
AtomLine(j) == Line("NUM", 0, <<10 * j, 20 * j, 30 * j, j * j, 2 * j * j, 3 * j * j>>)

\* An atom line cut after its second field.
ShortLine(j) == Line("NUM", 0, <<10 * j, 20 * j>>)

NatomsBlock(n) == <<Line(anchor_num_atoms, n, <<>>)>>

MassesBlock(m) ==
    <<Line(anchor_masses, 0, <<>>), Line("BLANK", 0, <<>>),
      Line("NUM", 0, [j \in 1..m |-> MassOf(j)])>>

TrajBlock(k) == <<Line(anchor_traj, k, <<>>)>>

\* A cycle line, the four header lines the scanner skips, and the atom lines.
FrameBlock(shape) ==
    <<Line(anchor_cycle, 0, <<>>), Line("TEXT", 0, <<>>), Line("TEXT", 0, <<>>),
      Line("TEXT", 0, <<>>), Line("TEXT", 0, <<>>)>>
    \o CASE shape = "full" -> [j \in 1..MaxAtoms |-> AtomLine(j)]
         [] shape = "short" -> [j \in 1..MaxAtoms |-> ShortLine(j)]
         [] shape = "cut" -> <<AtomLine(1)>>

\* The cycle count printed on a cycle line is its line number, and the time
\* printed is 100 times that, in units of 1.0e-14 s.
Stamp(lines) ==
    [i \in DOMAIN lines |->
        IF lines[i].kind = anchor_cycle
        THEN Line(anchor_cycle, i, <<100 * i>>)
        ELSE lines[i]]

Headers ==
    {NatomsBlock(n) \o MassesBlock(m) : n \in 1..MaxAtoms, m \in 1..MaxAtoms}
    \cup {NatomsBlock(n) : n \in 1..MaxAtoms}
    \cup {MassesBlock(m) : m \in 1..MaxAtoms}
    \cup {<<>>}

BodyBlocks ==
    {TrajBlock(k) : k \in 1..MaxTraj}
    \cup {FrameBlock(s) : s \in {"full", "short", "cut"}}
    \cup {NatomsBlock(n) : n \in 1..MaxAtoms}

\* The source files with a header and a body of at most n blocks.
Sources(n) ==
    {Stamp(h \o Concat(b)) : h \in Headers, b \in SeqsUpTo(BodyBlocks, n)}

\* ---------------------------------------------------------- unit converter
\* 0.1 * x: Angstrom -> nm.
Length(x) == x \div 10

\* 10.0 * p / m: amu * Angstrom / (1.0e-14 s), divided by amu -> nm/ps.
Velocity(p, m) == (10 * p) \div m

\* raw * 1.0e-02: 1.0e-14 s -> ps.
Time(raw) == raw \div 100

\* ------------------------------------------------------ reorder map loader
NoMap == [scalar |-> FALSE, idx |-> <<>>, loaded |-> FALSE]

\* np.loadtxt(reorder, dtype=np.int32) - 1: a file holding a single integer
\* loads as a 0-dimensional array, any other as a 1-dimensional one.
LoadTxt(ints) ==
    [scalar |-> Len(ints) = 1,
     idx |-> [i \in DOMAIN ints |-> ints[i] - 1],
     loaded |-> TRUE]

\* ----------------------------------------------------------- reorder mapper
\* The loop over enumerate(reorder_map) raises when the map is a 0-d array,
\* when new_idx is outside the snapshot, or when old_idx is outside xyz.
ReorderError(n, map) ==
    IF map.scalar THEN "TypeError"
    ELSE IF \E i \in DOMAIN map.idx :
                \/ map.idx[i] < -n
                \/ map.idx[i] >= n
                \/ i - 1 >= n
         THEN "IndexError"
         ELSE ""

\* Reordering that reads from the array it is overwriting.
RECURSIVE ReorderFrom(_, _, _)
ReorderFrom(arr, idx, i) ==
    IF i > Len(idx) THEN arr
    ELSE ReorderFrom([arr EXCEPT ![i] = PyIndex(arr, idx[i])], idx, i + 1)

ReorderInPlace(arr, idx) == ReorderFrom(arr, idx, 1)

\* _xyz = deepcopy(xyz); for (old_idx, new_idx) in enumerate(reorder_map):
\*     xyz[old_idx] = _xyz[new_idx]
Reorder(arr, idx) ==
    [i \in DOMAIN arr |-> IF i <= Len(idx) THEN PyIndex(arr, idx[i]) ELSE arr[i]]

\* ------------------------------------------------------------------ scanner
IsNumeric(line) == line.kind \in {"NUM", "BLANK"}

\* masses[i] is evaluated for every atom in venus2g96 (an array expression),
\* and once per momentum token in venus2gro (inside the comprehension).
ReadsMass(line) == variant = "g96" \/ Len(line.nums) > 3

\* The exception atom i (0-based) of the frame at cycle line c raises, if any.
AtomError(c, i, ms) ==
    LET at == c + 5 + i
    IN  IF at >= Len(contents) THEN "IndexError"
        ELSE IF ~IsNumeric(contents[at + 1]) THEN "ValueError"
        ELSE IF ReadsMass(contents[at + 1]) /\ i >= Len(ms) THEN "IndexError"
        ELSE ""

\* xyz_atom = 0.1 * arr[:3]; v_atom = 10.0 * arr[3:] / masses[i]
AtomXyz(line) == [k \in DOMAIN Prefix(line.nums, 3) |-> Length(line.nums[k])]

AtomVel(line, m) ==
    [k \in DOMAIN Suffix(line.nums, 3) |-> Velocity(Suffix(line.nums, 3)[k], m)]

\* The atom loop of one frame whose cycle line is at index c.
ReadAtoms(c, n, ms) ==
    LET bad == {i \in 0..(n - 1) : AtomError(c, i, ms) # ""}
    IN  IF bad # {}
        THEN [err |-> AtomError(c, Min(bad), ms), xyz |-> <<>>, vel |-> <<>>]
        ELSE [err |-> "",
              xyz |-> [j \in 1..n |-> AtomXyz(contents[c + 5 + j])],
              vel |-> [j \in 1..n |->
                         IF ReadsMass(contents[c + 5 + j])
                         THEN AtomVel(contents[c + 5 + j], ms[j])
                         ELSE <<>>]]

\* G96Mol(...) / GroMol(...): the record built for one frame.  snap_xyz and
\* snap_vel are the deepcopy snapshots _xyz and _vel taken before reordering
\* (the arrays as parsed when no reorder map is given).
Mol(cycle, time, traj, xyz, vel, sxyz, svel) ==
    [cycle |-> cycle, time |-> time, traj |-> traj, position |-> xyz,
     velocity |-> vel, snap_xyz |-> sxyz, snap_vel |-> svel]

\* The body of "if anchor_cycle in line": the frame, or the exception.
ParseFrame(c, line, n, ms, traj, tl) ==
    LET atoms == ReadAtoms(c, n, ms)
        rerr == IF ~reorder.given THEN "" ELSE ReorderError(n, reorder_map)
    IN  IF atoms.err # "" THEN [err |-> atoms.err, mol |-> <<>>]
        ELSE IF rerr # "" THEN [err |-> rerr, mol |-> <<>>]
        ELSE IF tl = <<>> THEN [err |-> "IndexError", mol |-> <<>>]
        ELSE [err |-> "",
              mol |-> Mol(line.val, Time(line.nums[1]), traj,
                          IF ~reorder.given THEN atoms.xyz
                          ELSE Reorder(atoms.xyz, reorder_map.idx),
                          IF ~reorder.given THEN atoms.vel
                          ELSE Reorder(atoms.vel, reorder_map.idx),
                          atoms.xyz, atoms.vel)]

\* if cur_traj_idx > len(traj_list): traj_list.append([])
AppendTraj(tl, k) == IF k > Len(tl) THEN Append(tl, <<>>) ELSE tl

\* traj_list[-1].append(mol)
AppendFrame(tl, mol) == [tl EXCEPT ![Len(tl)] = Append(@, mol)]

\* -------------------------------------------------------------- file system
\* A path: the directory, the trajectory suffix k of the file name, and the
\* backup version: ver = 0 is  <dir>/<base>_<k>.<ext>,  ver = v > 0 is
\* <dir>/#<base>_<k>.<v>.<ext>#.
Path(dir, k, ver) == [dir |-> dir, k |-> k, ver |-> ver]

NoPath == [dir |-> "", k |-> -1, ver |-> -1]

Dirs == {"cwd", "out"}

\* A file: the run that wrote it (0: it was there before the first run) and
\* its text.
File(r, data) == [run |-> r, data |-> data]

Exists(f, p) == p \in DOMAIN f

\* os.rename(a, b): b is replaced if it exists (POSIX).
Rename(f, a, b) ==
    [p \in (DOMAIN f \ {a}) \cup {b} |-> IF p = b THEN f[a] ELSE f[p]]

\* open(p, "w"): creates or truncates p.
OpenW(f, p) == [q \in DOMAIN f \cup {p} |-> IF q = p THEN File(run, <<>>) ELSE f[q]]

\* glob.glob(os.path.join(file_dir, "#<name>.*.<ext>#"))
Glob(f, dir, k) == {p \in DOMAIN f : p.dir = dir /\ p.k = k /\ p.ver > 0}

\* out.replace(".g96", f"_{traj_idx + 1}.g96") in venus2g96,
\* out.replace(".gro", f"_{traj_idx}.gro") in venus2gro.
TrajName(i) == Path(out_dir, IF variant = "g96" THEN i + 1 ELSE i, 0)

\* The name _auto_backup_file renames to: it carries no directory, so it is
\* relative to the working directory.
BackupName(f, file) ==
    Path("cwd", file.k, Cardinality(Glob(f, file.dir, file.k)) + 1)

\* The file is left where it is.
KeepFile(f, file) == f

\* _auto_backup_file(file)
AutoBackup(f, file) ==
    IF ~Exists(f, file) THEN f ELSE Rename(f, file, BackupName(f, file))

\* An entry of the log of file operations.
Op(op, path, to) == [op |-> op, path |-> path, to |-> to]

\* ---------------------------------------------------------------- serializer
\* str(frame) indexes three components of every position and velocity.
StrError(mol) ==
    IF \E i \in DOMAIN mol.position :
           Len(mol.position[i]) < 3 \/ Len(mol.velocity[i]) < 3
    THEN "IndexError"
    ELSE ""

\* The text of one frame: G96Mol.__str__ prints the timestep, positions,
\* velocities and the zero box; GroMol.__str__ prints the title (with the
\* declared trajectory and the time), the atom count, and one line per atom.
Str(mol) ==
    IF variant = "g96"
    THEN [title |-> <<>>, timestep |-> <<mol.cycle, mol.time>>,
          position |-> mol.position, velocity |-> mol.velocity]
    ELSE [title |-> <<mol.traj, mol.time>>, num_atoms |-> Len(mol.position),
          xyz |-> mol.position, vel |-> mol.velocity]

\* --------------------------------------------------------------- the inputs
\* One invocation set-up: the arguments, the input files, the files that
\* exist before the first run, and how often the tool is run again.
Config(v, sp, src, ro, tn, od, f0, rr) ==
    [variant |-> v, split |-> sp, contents |-> src, reorder |-> ro,
     temp_num_atoms |-> tn, out_dir |-> od, fs |-> f0, reruns |-> rr]

\* The argument reorder: None, or a file of 1-based integers.
NoReorder == [given |-> FALSE, ints |-> <<>>]

ReorderFile(ints) == [given |-> TRUE, ints |-> ints]

EmptyFs == [p \in {} |-> File(0, <<>>)]

\* Files present before the first run: the first output file of the variant
\* and backups of it, in the output directory.  Each holds its own text.
OldFiles(v, od) ==
    {[p \in P |-> File(0, <<p>>)] :
        P \in SUBSET {Path(od, IF v = "g96" THEN 1 ELSE 0, n) : n \in 0..MaxVer}}

\* Scanner inputs: every header with every body of at most n blocks, no
\* reorder map.
ScanConfigs(n) ==
    {Config(v, sp, src, NoReorder, MaxAtoms, "cwd", EmptyFs, 0) :
        v \in {"g96", "gro"}, sp \in BOOLEAN, src \in Sources(n)}

\* A well-formed file of n atoms with two trajectories of one frame.
Plain(n) ==
    Stamp(NatomsBlock(n) \o MassesBlock(MaxAtoms) \o TrajBlock(1)
          \o FrameBlock("full") \o TrajBlock(2) \o FrameBlock("full"))

\* Reorder inputs: every list of 1-based integers up to MaxAtoms + 1.
ReorderConfigs ==
    {Config(v, TRUE, Plain(n), ReorderFile(ro), n, "cwd", EmptyFs, 0) :
        v \in {"g96", "gro"}, n \in 1..MaxAtoms,
        ro \in SeqsUpTo(0..(MaxAtoms + 1), MaxAtoms)}

\* The frames of one trajectory in a writer input.
TrajFrames ==
    {<<>>, FrameBlock("full"), FrameBlock("full") \o FrameBlock("full"),
     FrameBlock("short")}

\* Writer inputs: trajectories 1..nt declared in order, each with its frames.
WriteSources ==
    {Stamp(NatomsBlock(MaxAtoms) \o MassesBlock(MaxAtoms)
           \o Concat([k \in 1..nt |-> TrajBlock(k) \o fr[k]])) :
        nt \in 0..MaxTraj, fr \in [1..MaxTraj -> TrajFrames]}

WriteConfigs ==
    UNION {{Config(v, sp, src, NoReorder, MaxAtoms, od, f0, MaxRuns - 1) :
                sp \in BOOLEAN, src \in WriteSources, f0 \in OldFiles(v, od)} :
           v \in {"g96", "gro"}, od \in Dirs}

\* ------------------------------------------------------------------- actions
\* The state at the entry of venus2g96 / venus2gro.
Entry ==
    /\ pc = "load"
    /\ error = ""
    /\ reorder_map = NoMap
    /\ cur_line_idx = 0
    /\ cur_traj_idx = 0
    /\ num_atoms = 0
    /\ masses = <<>>
    /\ traj_list = <<>>
    /\ traj_idx = 0
    /\ frame_idx = 0
    /\ handle = NoPath
    /\ out_list = <<>>
    /\ log = <<>>

Start(C) ==
    /\ \E c \in C :
        /\ variant = c.variant
        /\ split = c.split
        /\ contents = c.contents
        /\ reorder = c.reorder
        /\ temp_num_atoms = c.temp_num_atoms
        /\ out_dir = c.out_dir
        /\ fs = c.fs
        /\ reruns = c.reruns
    /\ run = 1
    /\ Entry

Init == Start(ScanConfigs(MaxBody) \cup ReorderConfigs \cup WriteConfigs)

\* The reorder and writer inputs alone.
InitWrite == Start(ReorderConfigs \cup WriteConfigs)

\* Section 0: load the reorder map (and, in venus2gro, the template).
Load ==
    /\ pc = "load"
    /\ reorder_map' = IF ~reorder.given THEN NoMap ELSE LoadTxt(reorder.ints)
    /\ pc' = "parse"
    /\ UNCHANGED <<inputs, error, cur_line_idx, cur_traj_idx, num_atoms, masses,
                   traj_list, traj_idx, frame_idx, handle, out_list, fs, run,
                   reruns, log>>

\* One iteration of "while cur_line_idx < num_lines".
ScanLine(idx, na, ms, traj, tl) ==
    LET line0 == contents[idx + 1]
        \* parse num_atoms (venus2gro asserts it against the template)
        na1 == IF line0.kind = anchor_num_atoms THEN line0.val ELSE na
        err1 == IF /\ variant = "gro"
                   /\ line0.kind = anchor_num_atoms
                   /\ na1 # temp_num_atoms
                THEN "AssertionError" ELSE ""
        \* parse masses
        isM == line0.kind = anchor_masses
        idx2 == IF isM THEN idx + 2 ELSE idx
        err2 == IF ~isM THEN ""
                ELSE IF idx2 >= Len(contents) THEN "IndexError"
                ELSE IF ~IsNumeric(contents[idx2 + 1]) THEN "ValueError"
                ELSE ""
        line == IF isM /\ err2 = "" THEN contents[idx2 + 1] ELSE line0
        ms2 == IF isM /\ err2 = "" THEN line.nums ELSE ms
        \* parse traj
        traj3 == IF line.kind = anchor_traj THEN line.val ELSE traj
        tl3 == IF line.kind = anchor_traj THEN AppendTraj(tl, traj3) ELSE tl
        \* parse current traj
        isC == line.kind = anchor_cycle
        fr == ParseFrame(idx2, line, na1, ms2, traj3, tl3)
        err4 == IF isC THEN fr.err ELSE ""
        err == IF err1 # "" THEN err1 ELSE IF err2 # "" THEN err2 ELSE err4
    IN  [err |-> err,
         idx |-> IF isC THEN idx2 + 4 + na1 + 1 ELSE idx2 + 1,
         num_atoms |-> na1,
         masses |-> ms2,
         traj |-> traj3,
         traj_list |-> IF isC /\ err = "" THEN AppendFrame(tl3, fr.mol) ELSE tl3]

ParseLine ==
    /\ pc = "parse"
    /\ cur_line_idx < Len(contents)
    /\ LET r == ScanLine(cur_line_idx, num_atoms, masses, cur_traj_idx, traj_list)
       IN  IF r.err # ""
           THEN /\ pc' = "error"
                /\ error' = r.err
                /\ UNCHANGED <<cur_line_idx, num_atoms, masses, cur_traj_idx,
                               traj_list>>
           ELSE /\ cur_line_idx' = r.idx
                /\ num_atoms' = r.num_atoms
                /\ masses' = r.masses
                /\ cur_traj_idx' = r.traj
                /\ traj_list' = r.traj_list
                /\ UNCHANGED <<pc, error>>
    /\ UNCHANGED <<inputs, reorder_map, traj_idx, frame_idx, handle, out_list,
                   fs, run, reruns, log>>

\* if not split: traj_list = np.concatenate(traj_list).reshape(1, -1).tolist()
\* np.concatenate raises on an empty list of arrays.
\* Only the last trajectory is kept.
FlattenLast(tl) == <<tl[Len(tl)]>>

Flatten(tl) == <<Concat(tl)>>

EndParse ==
    /\ pc = "parse"
    /\ cur_line_idx >= Len(contents)
    /\ IF ~split /\ traj_list = <<>>
       THEN /\ pc' = "error"
            /\ error' = "ValueError"
            /\ UNCHANGED traj_list
       ELSE /\ pc' = "loop"
            /\ traj_list' = IF split THEN traj_list ELSE Flatten(traj_list)
            /\ UNCHANGED error
    /\ UNCHANGED <<inputs, reorder_map, cur_line_idx, cur_traj_idx, num_atoms,
                   masses, traj_idx, frame_idx, handle, out_list, fs, run,
                   reruns, log>>

\* for (traj_idx, traj) in enumerate(traj_list): the next trajectory, or return.
NextTraj ==
    /\ pc = "loop"
    /\ pc' = IF traj_idx < Len(traj_list) THEN "backup" ELSE "done"
    /\ UNCHANGED <<inputs, error, reorder_map, cur_line_idx, cur_traj_idx,
                   num_atoms, masses, traj_list, traj_idx, frame_idx, handle,
                   out_list, fs, run, reruns, log>>

\* _auto_backup_file(traj_name)
Backup ==
    /\ pc = "backup"
    /\ fs' = AutoBackup(fs, TrajName(traj_idx))
    /\ log' = IF Exists(fs, TrajName(traj_idx))
              THEN Append(log, Op("rename", TrajName(traj_idx),
                                 BackupName(fs, TrajName(traj_idx))))
              ELSE log
    /\ pc' = "open"
    /\ UNCHANGED <<inputs, error, reorder_map, cur_line_idx, cur_traj_idx,
                   num_atoms, masses, traj_list, traj_idx, frame_idx, handle,
                   out_list, run, reruns>>

\* with open(traj_name, "w") as f:
Open ==
    /\ pc = "open"
    /\ fs' = OpenW(fs, TrajName(traj_idx))
    /\ handle' = TrajName(traj_idx)
    /\ frame_idx' = 0
    /\ log' = Append(log, Op("open", TrajName(traj_idx), NoPath))
    /\ pc' = "write"
    /\ UNCHANGED <<inputs, error, reorder_map, cur_line_idx, cur_traj_idx,
                   num_atoms, masses, traj_list, traj_idx, out_list, run, reruns>>

\* f.writelines(f"{str(frame)}\n") for the next frame; an exception leaves
\* the with-statement, which closes the file.
WriteFrame ==
    /\ pc = "write"
    /\ frame_idx < Len(traj_list[traj_idx + 1])
    /\ LET mol == traj_list[traj_idx + 1][frame_idx + 1]
       IN  IF StrError(mol) # ""
           THEN /\ pc' = "error"
                /\ error' = StrError(mol)
                /\ handle' = NoPath
                /\ log' = Append(log, Op("close", handle, NoPath))
                /\ UNCHANGED <<fs, frame_idx>>
           ELSE /\ fs' = [fs EXCEPT ![handle].data = Append(@, Str(mol))]
                /\ frame_idx' = frame_idx + 1
                /\ UNCHANGED <<pc, error, handle, log>>
    /\ UNCHANGED <<inputs, reorder_map, cur_line_idx, cur_traj_idx, num_atoms,
                   masses, traj_list, traj_idx, out_list, run, reruns>>

\* The end of the with-statement and traj_list.append(traj_name).
Close ==
    /\ pc = "write"
    /\ frame_idx = Len(traj_list[traj_idx + 1])
    /\ handle' = NoPath
    /\ out_list' = Append(out_list, handle)
    /\ log' = Append(log, Op("close", handle, NoPath))
    /\ traj_idx' = traj_idx + 1
    /\ pc' = "loop"
    /\ UNCHANGED <<inputs, error, reorder_map, cur_line_idx, cur_traj_idx,
                   num_atoms, masses, traj_list, frame_idx, fs, run, reruns>>

\* The tool is run again with the same arguments on the files it left.
Rerun ==
    /\ pc \in {"done", "error"}
    /\ reruns > 0
    /\ reruns' = reruns - 1
    /\ run' = run + 1
    /\ pc' = "load"
    /\ error' = ""
    /\ reorder_map' = NoMap
    /\ cur_line_idx' = 0
    /\ cur_traj_idx' = 0
    /\ num_atoms' = 0
    /\ masses' = <<>>
    /\ traj_list' = <<>>
    /\ traj_idx' = 0
    /\ frame_idx' = 0
    /\ handle' = NoPath
    /\ out_list' = <<>>
    /\ log' = <<>>
    /\ UNCHANGED <<inputs, fs>>

Next ==
    \/ Load
    \/ ParseLine
    \/ EndParse
    \/ NextTraj
    \/ Backup
    \/ Open
    \/ WriteFrame
    \/ Close
    \/ Rerun

Spec == Init /\ [][Next]_vars

SpecWrite == InitWrite /\ [][Next]_vars

\* ------------------------------------------------------------------- claims
\* Every frame record held by traj_list, with its place.
Places == UNION {{<<t, j>> : j \in DOMAIN traj_list[t]} : t \in DOMAIN traj_list}

Frame(pl) == traj_list[pl[1]][pl[2]]

\* The line numbers (1-based) of the cycle lines of the source, in order.
CycleLines == SelectSeq([i \in DOMAIN contents |-> i],
                        LAMBDA i : contents[i].kind = anchor_cycle)

\* The files the current run has written, in the order of out_list.
Written == [i \in DOMAIN out_list |-> fs[out_list[i]].data]

\* The cycle line each frame of a written file came from (its time in ps).
Origin(text) == IF variant = "g96" THEN text.timestep[1] ELSE text.title[2]

\* C1: whenever _auto_backup_file is about to rename an existing output
\* file, no file exists at the backup path it renames to.
C1_BackupTargetFresh ==
    (pc = "backup" /\ Exists(fs, TrajName(traj_idx)))
        => ~Exists(fs, BackupName(fs, TrajName(traj_idx)))

\* C2: a run that ends with an error has renamed no output path and has
\* opened no output path for writing.
C2_ErrorBeforeAnyOutput == pc = "error" => log = <<>>

\* C3: during the scan every cycle line already passed has exactly one frame
\* record, and every frame record is in the sequence of the trajectory the
\* most recent TRAJECTORY NUMBER line declared.
C3_FrameUnderDeclaredTraj ==
    pc = "parse" =>
        /\ \A i \in 1..cur_line_idx :
              contents[i].kind = anchor_cycle
                  => Cardinality({pl \in Places : Frame(pl).cycle = i}) = 1
        /\ \A pl \in Places : Frame(pl).traj = pl[1]

\* C4: every frame record has as many positions as velocities, and all frame
\* records of a run have the same number of atoms.
C4_AtomCountConstant ==
    \A pl \in Places :
        /\ Len(Frame(pl).position) = Len(Frame(pl).velocity)
        /\ \A pm \in Places : Len(Frame(pl).position) = Len(Frame(pm).position)

\* A line with the anchor comes before line i of the source.
HeaderBefore(i, anchor) == \E j \in 1..(i - 1) : contents[j].kind = anchor

\* C5: no frame record exists for a cycle line that comes before the first
\* NUMBER OF ATOMS line or before the first MASSES OF ATOMS line.
C5_NoFrameBeforeHeader ==
    \A pl \in Places :
        /\ HeaderBefore(Frame(pl).cycle, anchor_num_atoms)
        /\ HeaderBefore(Frame(pl).cycle, anchor_masses)

\* C6: a completed run has written, over its files in order, exactly one
\* frame per cycle line of the source, in source order (the concatenation
\* of the trajectories in index order), whether split or not; without split
\* they are all in one file.  The one scan result that does not complete
\* without split (no trajectory at all) has no frame to write.
C6_FrameCountConserved ==
    /\ pc = "done" =>
            LET all == Concat(Written)
            IN  /\ Len(all) = Len(CycleLines)
                /\ [i \in DOMAIN all |-> Origin(all[i])] = CycleLines
                /\ ~split => Len(Written) = 1
    /\ (pc = "error" /\ cur_line_idx >= Len(contents) /\ log = <<>>) =>
            /\ ~split
            /\ traj_list = <<>>
            /\ CycleLines = <<>>

\* A run without split has written one file holding frames that were
\* declared under different trajectories.
C6_Witness ==
    /\ pc = "done"
    /\ ~split
    /\ Len(out_list) = 1
    /\ Len(fs[out_list[1]].data) = Len(traj_list[1])
    /\ \E i, j \in DOMAIN traj_list[1] :
           traj_list[1][i].traj # traj_list[1][j].traj

\* C7: with a reorder map as long as the frame, slot i of the positions and
\* velocities of every frame record holds what the snapshot taken before
\* reordering held at slot map[i], for the one map loaded for the run.
C7_ReorderFromSnapshot ==
    \A pl \in Places :
        LET f == Frame(pl)
            n == Len(f.snap_xyz)
        IN  (reorder.given /\ Len(reorder_map.idx) = n) =>
                /\ Len(f.position) = n
                /\ Len(f.velocity) = n
                /\ \A i \in 1..n :
                      /\ f.position[i] = PyIndex(f.snap_xyz, reorder_map.idx[i])
                      /\ f.velocity[i] = PyIndex(f.snap_vel, reorder_map.idx[i])

\* Two trajectories hold frames that a map of full length has rearranged.
C7_Witness ==
    /\ reorder.given
    /\ Len(traj_list) = 2
    /\ \A t \in 1..2 :
          /\ traj_list[t] # <<>>
          /\ Len(reorder_map.idx) = Len(traj_list[t][1].snap_xyz)
          /\ traj_list[t][1].position # traj_list[t][1].snap_xyz
          /\ traj_list[t][1].velocity # traj_list[t][1].snap_vel

\* The 1-based integers are a bijection on the atom indices 1..n.
IsBijection(ints, n) == Len(ints) = n /\ {ints[i] : i \in DOMAIN ints} = 1..n

\* C8: frame records exist under a reorder map only if the map's 1-based
\* integers are a bijection on the atom indices.
C8_MapValidated ==
    \A pl \in Places :
        reorder.given => IsBijection(reorder.ints, Len(Frame(pl).snap_xyz))

\* C9: with split the file of the i-th trajectory (1-based) carries the
\* suffix i, in both variants; without split a completed run has written
\* exactly one file.
C9_TrajFileNames ==
    /\ split => \A i \in DOMAIN out_list : out_list[i] = Path(out_dir, i, 0)
    /\ (pc = "done" /\ ~split) => Len(out_list) = 1

\* C10: when a path is about to be opened for writing no file is at that
\* path, no file is held open while a path is rotated or opened, and in the
\* log every open is followed directly by the close of the same path.
C10_RotateBeforeOpen ==
    /\ pc = "open" => ~Exists(fs, TrajName(traj_idx))
    /\ pc \in {"loop", "backup", "open"} => handle = NoPath
    /\ \A i \in DOMAIN log :
          log[i].op = "open" =>
              IF i = Len(log) THEN handle = log[i].path /\ pc = "write"
              ELSE log[i + 1] = Op("close", log[i].path, NoPath)
    /\ \A i \in DOMAIN log :
          log[i].op = "rename" =>
              /\ i < Len(log) => log[i + 1] = Op("open", log[i].path, NoPath)
              /\ i = Len(log) => pc = "open" /\ log[i].path = TrajName(traj_idx)

\* The output file of a later trajectory has just been rotated and is about
\* to be opened.
C10_Witness ==
    /\ pc = "open"
    /\ traj_idx >= 1
    /\ log # <<>>
    /\ log[Len(log)] = Op("rename", TrajName(traj_idx), log[Len(log)].to)

====
